---------------------------- MODULE Spec2Model ----------------------------
(***************************************************************************)
(* Lifecycle supervisor of the caddy "nodejs" handler.                     *)
(*                                                                         *)
(* Variants of the handler live in the repository, selected by the         *)
(* variable `variant`:                                                     *)
(*   "container"  src/nodejs.go          (Docker container per handler)    *)
(*   "process"    src/unnamed/part_001   (spawned `node` process)          *)
(*   "deferred"   src/unnamed/part_002   (spawned process, ServeHTTP       *)
(*                                        unlocks by defer; Spec_defer)    *)
(*                                                                         *)
(* Time is discrete, one tick = 30 s, so time.Sleep(60 s) is 2 ticks.      *)
(* Durations of 5 s and below (start timeout, stop grace) are below one    *)
(* tick and appear as nondeterministic outcomes.                           *)
(***************************************************************************)
EXTENDS Integers, FiniteSets, Sequences, TLC

\* ------------------------------------------------------------- bounds
MaxReq == 2      \* number of inbound requests in a run
MaxTime == 3     \* the clock stops advancing here

\* ---------------------------------------------------- program constants
SleepInterval == 2        \* time.Sleep(60 * time.Second) in monitorIdleTime
IdleTimeoutDefault == 2   \* n.timeout = 1 * time.Minute (earlier variant, README)
timeout == 0              \* n.timeout: declared, never assigned in nodejs.go / part_001
ZeroTime == -1            \* zero value of lastActive (time.Time{})
RotationTicks == 120      \* n.LogRotationDuration = 1 * time.Hour
TicksPerDay == 2880       \* the date in a log file's name changes every 24 hours
Retention == 24           \* logFileCount > 24, len(files)-24

Requests == 1..MaxReq
Units == 1..MaxReq        \* every unit is started by a request
NoUnit == 0               \* containerID == "" / serverCmd == nil
Free == <<"free", 0>>
ReqTask(r) == <<"req", r>>
ReaperTask(u) == <<"reaper", u>>
Addr == "http://localhost:3000"   \* fmt.Sprintf("http://localhost:%d", n.Port)

VARIABLES
  variant,        \* "container" | "process" | "deferred"
  now,            \* the clock, in ticks
  serverMutex,    \* n.serverMutex: Free or the task holding it
  lastActive,     \* n.lastActive
  serverAddr,     \* n.serverAddr
  containerID,    \* n.containerID (container variant): NoUnit or a unit
  serverCmd,      \* n.serverCmd (process variant): NoUnit or a unit
  serverStopped,  \* n.serverStopped (process variant)
  serverReady,    \* n.serverReady: the WaitGroup's counter (process variant)
  units,          \* the runtime's view of every unit ever created
  reaper,         \* one monitorIdleTime goroutine per started unit
  prober,         \* the readiness goroutine of startServer (process variant)
  pc,             \* where each request's ServeHTTP call stands
  outcome,        \* what each ServeHTTP call returned
  target,         \* the unit a request relied on when it left the locked section
  startedBy,      \* history: the requests that called startServer
  fwdState,       \* history: the state of the target unit when the request was forwarded
  arrival,        \* history: what the request found when it entered ServeHTTP
  stopIdle,       \* history: time.Since(lastActive) at the reaper's latest stop, or -1
  direct,         \* history of a direct stopServer, stopServer sequence
  proxy,          \* one request on its way through the forwarding code of ServeHTTP
  alloc,          \* one call of getRandomPort
  logs            \* n.LogFileMap, the rotateLogs goroutines and the log files on disk

vars == <<variant, now, serverMutex, lastActive, serverAddr, containerID, serverCmd,
          serverStopped, serverReady, units, reaper, prober, pc, outcome, target,
          startedBy, fwdState, arrival, stopIdle, direct, proxy, alloc, logs>>

procVars == <<serverCmd, serverStopped, serverReady, prober>>
histVars == <<startedBy, fwdState, arrival, stopIdle, direct>>
pureVars == <<proxy, alloc>>

NoDirect == [pre |-> NoUnit, mid |-> NoUnit, post |-> NoUnit, err1 |-> FALSE, err2 |-> FALSE, n |-> 0]

\* No request is in the forwarding code, getRandomPort has not been called.
NoProxy == [stage |-> "none"]
NoAlloc == [stage |-> "none"]

\* n.LogFileMap holds, per pid, no entry or the handle of a file that is open
\* or has been closed.  No rotateLogs goroutine runs and no log file exists.
NoLogFiles == [u \in Units |-> "none"]
NoLogs == [LogFileMap |-> NoLogFiles,
           rotator |-> [u \in Units |-> [pc |-> "none", wake |-> 0, count |-> 0]],
           files |-> {}]

\* The fields of a Nodejs value after parseCaddyfile, and the empty histories.
InitFields ==
  /\ now = 0
  /\ serverMutex = Free
  /\ lastActive = ZeroTime
  /\ serverAddr = ""
  /\ containerID = NoUnit
  /\ serverCmd = NoUnit
  /\ serverStopped = FALSE
  /\ serverReady = 0
  /\ units = [u \in Units |-> "none"]
  /\ reaper = [u \in Units |-> [pc |-> "none", wake |-> 0]]
  /\ prober = [u \in Units |-> "none"]
  /\ pc = [r \in Requests |-> "idle"]
  /\ outcome = [r \in Requests |-> "none"]
  /\ target = [r \in Requests |-> NoUnit]
  /\ startedBy = {}
  /\ fwdState = [r \in Requests |-> "none"]
  /\ arrival = [r \in Requests |-> [stopped |-> FALSE, stopsRun |-> {}]]
  /\ stopIdle = -1
  /\ direct = NoDirect

Init ==
  /\ variant \in {"container", "process"}
  /\ InitFields
  /\ proxy = NoProxy
  /\ alloc = NoAlloc
  /\ logs = NoLogs

\* time.Since(t)
Since(t) == now - t

\* the identity the runtime gives the next unit
NewUnit == CHOOSE u \in Units : units[u] = "none" /\ \A v \in Units : units[v] = "none" => u <= v

\* go n.monitorIdleTime(): the goroutine starts in its first time.Sleep
SpawnReaper(u) == [reaper EXCEPT ![u] = [pc |-> "sleep", wake |-> now + SleepInterval]]

\* The instance holds no identity: n.containerID == "" in nodejs.go; in part_001
\* the first two disjuncts of the start condition of ServeHTTP.
IdentityEmpty ==
  IF variant = "container" THEN containerID = NoUnit
                           ELSE serverCmd = NoUnit \/ serverStopped

\* The lifecycle state the fields of Nodejs encode.  nodejs.go starts and stops
\* under the lock and has no readiness wait: an identity means Ready.  In
\* part_001 the instance is Starting until the prober of the current unit has
\* called n.serverReady.Done().
LifecycleState ==
  CASE IdentityEmpty -> "Stopped"
    [] ~IdentityEmpty /\ variant = "container" -> "Ready"
    [] ~IdentityEmpty /\ variant = "process" ->
         IF prober[serverCmd] = "done" THEN "Ready" ELSE "Starting"

\* ------------------------------------------------ container variant

\* What the Docker daemon answers to a start sequence.
StartResults == {"clientErr", "createErr", "startErr", "ok"}

\* startServer(true): called with the lock held.  res is the runtime's answer.
startServer(res) ==
  /\ res \in StartResults
  /\ units' = CASE res = "startErr" -> [units EXCEPT ![NewUnit] = "created"]
                [] res = "ok"       -> [units EXCEPT ![NewUnit] = "running"]
                [] OTHER            -> units
  /\ IF res = "ok"
       THEN /\ containerID' = NewUnit
            /\ serverAddr' = Addr
            /\ reaper' = SpawnReaper(NewUnit)
       ELSE UNCHANGED <<containerID, serverAddr, reaper>>

\* What the Docker daemon answers to StopContainer / RemoveContainer of id.
\* A container that does not exist (the empty id included) cannot be stopped.
StopResults(id) ==
  IF id # NoUnit /\ units[id] \in {"running", "listening"}
    THEN {"clientErr", "stopErr", "removeErr", "ok"}
    ELSE {"clientErr", "stopErr"}

\* stopServer with n.containerID = "" moved above the error returns.
stopServer_clearsOnError(res) ==
  /\ res \in StopResults(containerID)
  /\ units' = CASE res = "removeErr" -> [units EXCEPT ![containerID] = "exited"]
                [] res = "ok"        -> [units EXCEPT ![containerID] = "removed"]
                [] OTHER             -> units
  /\ containerID' = NoUnit

\* stopServer(lockAcquired): the body after the lock has been settled.
\* Every error path returns before n.containerID = "".
stopServer(res) ==
  /\ res \in StopResults(containerID)
  /\ units' = CASE res = "removeErr" -> [units EXCEPT ![containerID] = "exited"]
                [] res = "ok"        -> [units EXCEPT ![containerID] = "removed"]
                [] OTHER             -> units
  /\ containerID' = IF res = "ok" THEN NoUnit ELSE containerID

\* ------------------------------------------------ process variant

\* time.Now().Format("20060102") of createLogFile: the day the clock is in.
Today == now \div TicksPerDay

\* createLogFile(pid), os.OpenFile having succeeded: the file of today exists
\* (O_CREATE|O_APPEND) and its handle is n.LogFileMap[pid]; map is the value
\* of n.LogFileMap before the call.
createLogFile(pid, map) ==
  [logs EXCEPT !.LogFileMap = [map EXCEPT ![pid] = "open"],
               !.files = logs.files \cup {Today}]

\* go n.rotateLogs(pid): the goroutine starts in its first time.Sleep with
\* logFileCount = 0.
SpawnRotator(u) ==
  [logs.rotator EXCEPT ![u] = [pc |-> "sleep", wake |-> now + RotationTicks, count |-> 0]]

\* What the operating system answers to a start sequence: cmd.Start() fails,
\* createLogFile fails after the process is up, or all of it succeeds.
StartResults_proc == {"startErr", "logErr", "ok"}

\* startServer() of part_001, called with the lock held.  serverCmd,
\* serverStopped and the WaitGroup are written before cmd.Start() is tried.
startServer_proc(res) ==
  /\ res \in StartResults_proc
  /\ serverCmd' = NewUnit
  /\ serverStopped' = FALSE
  /\ serverReady' = serverReady + 1
  /\ IF res = "startErr"
       THEN /\ units' = [units EXCEPT ![NewUnit] = "unstarted"]
            /\ UNCHANGED <<prober, serverAddr, reaper, logs>>
       ELSE /\ units' = [units EXCEPT ![NewUnit] = "running"]
            /\ prober' = [prober EXCEPT ![NewUnit] = "polling"]
            /\ serverAddr' = Addr
            /\ reaper' = SpawnReaper(NewUnit)
            /\ logs' = IF res = "ok"
                         THEN [createLogFile(NewUnit, NoLogFiles) EXCEPT
                                 !.rotator = SpawnRotator(NewUnit)]
                         ELSE [logs EXCEPT !.LogFileMap = NoLogFiles]

\* n.serverCmd.ProcessState is written by cmd.Wait() only, which part_001 never
\* calls (it calls n.serverCmd.Process.Wait()): the field stays nil.
ProcessStateExited == FALSE

\* The start condition of ServeHTTP in part_001.
NeedStart_proc == serverCmd = NoUnit \/ serverStopped \/ ProcessStateExited

\* What the select of stopServer sees: the process exits within the 5 s grace
\* window, or it does not and is sent os.Kill.
StopResults_proc == {"exited", "timedOut"}

\* stopServer(pid, lockAcquired) of part_001, after the lock has been settled.
\* serverStopped is written on the done branch of the select only.
stopServer_proc(pid, res) ==
  /\ res \in StopResults_proc
  /\ units' = [units EXCEPT ![pid] = "exited"]
  /\ serverStopped' = IF serverCmd = pid /\ res = "exited" THEN TRUE ELSE serverStopped
  /\ logs' = [logs EXCEPT !.LogFileMap[pid] = "none"]

\* ------------------------------------------------ requests (both variants)

\* ServeHTTP is entered: the request is about to call n.serverMutex.Lock().
\* Requests are interchangeable, so they enter in the order of their numbers.
ServeHTTP_Enter(r) ==
  /\ pc[r] = "idle"
  /\ \A q \in Requests : q < r => pc[q] # "idle"
  /\ pc' = [pc EXCEPT ![r] = "lock"]
  /\ arrival' = [arrival EXCEPT ![r] = [stopped |-> IdentityEmpty,
                                         stopsRun |-> {u \in Units : reaper[u].pc = "exit"}]]
  /\ UNCHANGED <<pureVars, logs, variant, now, serverMutex, lastActive, serverAddr, containerID, units,
                 reaper, outcome, target, startedBy, fwdState, stopIdle, direct>>
  /\ UNCHANGED procVars

\* n.serverMutex.Lock() returns.
ServeHTTP_Lock(r) ==
  /\ pc[r] = "lock"
  /\ serverMutex = Free
  /\ serverMutex' = ReqTask(r)
  /\ pc' = [pc EXCEPT ![r] = "locked"]
  /\ UNCHANGED <<pureVars, logs, variant, now, lastActive, serverAddr, containerID, units, reaper,
                 outcome, target>>
  /\ UNCHANGED procVars
  /\ UNCHANGED histVars

\* The locked section of ServeHTTP in nodejs.go: start if containerID == "",
\* then lastActive = time.Now() and Unlock.  A failed start returns the error
\* with no Unlock on that path.
ServeHTTP_Ensure(r) ==
  /\ variant = "container"
  /\ pc[r] = "locked"
  /\ IF containerID = NoUnit
       THEN \E res \in StartResults :
              /\ startServer(res)
              /\ startedBy' = startedBy \cup {r}
              /\ IF res = "ok"
                   THEN /\ lastActive' = now
                        /\ serverMutex' = Free
                        /\ pc' = [pc EXCEPT ![r] = "forward"]
                        /\ target' = [target EXCEPT ![r] = containerID']
                        /\ UNCHANGED outcome
                   ELSE /\ pc' = [pc EXCEPT ![r] = "done"]
                        /\ outcome' = [outcome EXCEPT ![r] = "StartFailure"]
                        /\ UNCHANGED <<lastActive, serverMutex, target>>
       ELSE /\ lastActive' = now
            /\ serverMutex' = Free
            /\ pc' = [pc EXCEPT ![r] = "forward"]
            /\ target' = [target EXCEPT ![r] = containerID]
            /\ UNCHANGED <<containerID, serverAddr, units, reaper, outcome, startedBy>>
  /\ UNCHANGED <<pureVars, logs, variant, now, fwdState, arrival, stopIdle, direct>>
  /\ UNCHANGED procVars

\* The locked section of ServeHTTP in part_001 up to the select: a failed
\* start returns the error with no Unlock on that path.
ServeHTTP_Ensure_proc(r) ==
  /\ variant = "process"
  /\ pc[r] = "locked"
  /\ IF NeedStart_proc
       THEN \E res \in StartResults_proc :
              /\ startServer_proc(res)
              /\ startedBy' = startedBy \cup {r}
              /\ IF res = "ok"
                   THEN /\ pc' = [pc EXCEPT ![r] = "waitReady"]
                        /\ UNCHANGED outcome
                   ELSE /\ pc' = [pc EXCEPT ![r] = "done"]
                        /\ outcome' = [outcome EXCEPT ![r] = "StartFailure"]
              /\ UNCHANGED <<lastActive, serverMutex, target>>
       ELSE /\ lastActive' = now
            /\ serverMutex' = Free
            /\ pc' = [pc EXCEPT ![r] = "forward"]
            /\ target' = [target EXCEPT ![r] = serverCmd]
            /\ UNCHANGED <<serverAddr, units, reaper, outcome, startedBy, logs>>
            /\ UNCHANGED procVars
  /\ UNCHANGED <<pureVars, variant, now, containerID, fwdState, arrival, stopIdle, direct>>

\* The select's ready case without the write of lastActive.
ServeHTTP_Ready_noTouch(r) ==
  /\ pc[r] = "waitReady"
  /\ serverReady = 0
  /\ serverMutex' = Free
  /\ pc' = [pc EXCEPT ![r] = "forward"]
  /\ target' = [target EXCEPT ![r] = serverCmd]
  /\ UNCHANGED <<pureVars, logs, variant, now, lastActive, serverAddr, containerID, units, reaper,
                 outcome>>
  /\ UNCHANGED procVars
  /\ UNCHANGED histVars

\* The select of ServeHTTP, case n.serverReady.Wait() returned: lastActive,
\* Unlock, and on to the forward.
ServeHTTP_Ready(r) ==
  /\ pc[r] = "waitReady"
  /\ serverReady = 0
  /\ lastActive' = now
  /\ serverMutex' = Free
  /\ pc' = [pc EXCEPT ![r] = "forward"]
  /\ target' = [target EXCEPT ![r] = serverCmd]
  /\ UNCHANGED <<pureVars, logs, variant, now, serverAddr, containerID, units, reaper, outcome>>
  /\ UNCHANGED procVars
  /\ UNCHANGED histVars

\* The select of ServeHTTP, case time.After(5 s): the error is returned with
\* no Unlock on that path.
ServeHTTP_Timeout(r) ==
  /\ pc[r] = "waitReady"
  /\ serverReady > 0
  /\ pc' = [pc EXCEPT ![r] = "done"]
  /\ outcome' = [outcome EXCEPT ![r] = "StartTimeout"]
  /\ UNCHANGED <<pureVars, logs, variant, now, serverMutex, lastActive, serverAddr, containerID, units,
                 reaper, target>>
  /\ UNCHANGED procVars
  /\ UNCHANGED histVars

\* The goroutine of startServer: net.Dial succeeds once the unit listens, and
\* then n.serverReady.Done().  A failed Dial sleeps 100 ms and retries.
Prober(u) ==
  /\ prober[u] = "polling"
  /\ units[u] = "listening"
  /\ serverReady' = serverReady - 1
  /\ prober' = [prober EXCEPT ![u] = "done"]
  /\ UNCHANGED <<pureVars, logs, variant, now, serverMutex, lastActive, serverAddr, containerID, serverCmd,
                 serverStopped, units, reaper, pc, outcome, target>>
  /\ UNCHANGED histVars

\* httpClient.Do(proxyReq) against n.serverAddr: it connects to whatever listens
\* on the port.  A transport failure can hit any forward.
ForwardResults == IF \E u \in Units : units[u] = "listening"
                    THEN {"OK", "ProxyFailure"} ELSE {"ProxyFailure"}

\* A forward that gives the instance up when the transport fails.
ServeHTTP_Forward_givesUp(r) ==
  /\ pc[r] = "forward"
  /\ \E res \in ForwardResults :
       /\ outcome' = [outcome EXCEPT ![r] = res]
       /\ containerID' = IF res = "ProxyFailure" THEN NoUnit ELSE containerID
  /\ pc' = [pc EXCEPT ![r] = "done"]
  /\ fwdState' = [fwdState EXCEPT ![r] = units[target[r]]]
  /\ UNCHANGED <<pureVars, logs, variant, now, serverMutex, lastActive, serverAddr, units,
                 reaper, target, startedBy, arrival, stopIdle, direct>>
  /\ UNCHANGED procVars

\* The return of httpClient.Do: the request ends with the response or with the
\* proxy error; no field of Nodejs is written.
ServeHTTP_Forward(r) ==
  /\ pc[r] = "forward"
  /\ \E res \in ForwardResults : outcome' = [outcome EXCEPT ![r] = res]
  /\ pc' = [pc EXCEPT ![r] = "done"]
  /\ fwdState' = [fwdState EXCEPT ![r] = units[target[r]]]
  /\ UNCHANGED <<pureVars, logs, variant, now, serverMutex, lastActive, serverAddr, containerID, units,
                 reaper, target, startedBy, arrival, stopIdle, direct>>
  /\ UNCHANGED procVars

\* ------------------------------------------------ the idle reaper

\* monitorIdleTime: time.Sleep(60 s) is over and n.serverMutex.Lock() returns.
monitorIdleTime_Wake(u) ==
  /\ reaper[u].pc = "sleep"
  /\ now >= reaper[u].wake
  /\ serverMutex = Free
  /\ serverMutex' = ReaperTask(u)
  /\ reaper' = [reaper EXCEPT ![u].pc = "check"]
  /\ UNCHANGED <<pureVars, logs, variant, now, lastActive, serverAddr, containerID, units, pc, outcome, target>>
  /\ UNCHANGED procVars
  /\ UNCHANGED histVars

\* monitorIdleTime without the break after stopServer: the loop goes on.
monitorIdleTime_Check_noBreak(u) ==
  /\ variant = "container"
  /\ reaper[u].pc = "check"
  /\ IF Since(lastActive) > timeout
       THEN /\ \E res \in StopResults(containerID) : stopServer(res)
            /\ stopIdle' = Since(lastActive)
       ELSE UNCHANGED <<containerID, units, stopIdle>>
  /\ reaper' = [reaper EXCEPT ![u] = [pc |-> "sleep", wake |-> now + SleepInterval]]
  /\ serverMutex' = Free
  /\ UNCHANGED <<pureVars, logs, variant, now, lastActive, serverAddr, pc, outcome, target, startedBy,
                 fwdState, arrival, direct>>
  /\ UNCHANGED procVars

\* monitorIdleTime of nodejs.go: the idle check, stopServer(true), Unlock, break;
\* or Unlock and sleep again.
monitorIdleTime_Check(u) ==
  /\ variant = "container"
  /\ reaper[u].pc = "check"
  /\ IF Since(lastActive) > timeout
       THEN /\ \E res \in StopResults(containerID) : stopServer(res)
            /\ stopIdle' = Since(lastActive)
            /\ reaper' = [reaper EXCEPT ![u].pc = "exit"]
       ELSE /\ reaper' = [reaper EXCEPT ![u] = [pc |-> "sleep", wake |-> now + SleepInterval]]
            /\ UNCHANGED <<containerID, units, stopIdle>>
  /\ serverMutex' = Free
  /\ UNCHANGED <<pureVars, logs, variant, now, lastActive, serverAddr, pc, outcome, target, startedBy,
                 fwdState, arrival, direct>>
  /\ UNCHANGED procVars

\* monitorIdleTime(pid) of part_001.
monitorIdleTime_Check_proc(u) ==
  /\ variant = "process"
  /\ reaper[u].pc = "check"
  /\ IF Since(lastActive) > timeout
       THEN /\ \E res \in StopResults_proc : stopServer_proc(u, res)
            /\ stopIdle' = Since(lastActive)
            /\ reaper' = [reaper EXCEPT ![u].pc = "exit"]
       ELSE /\ reaper' = [reaper EXCEPT ![u] = [pc |-> "sleep", wake |-> now + SleepInterval]]
            /\ UNCHANGED <<serverStopped, units, stopIdle, logs>>
  /\ serverMutex' = Free
  /\ UNCHANGED <<pureVars, variant, now, lastActive, serverAddr, containerID, serverCmd, serverReady,
                 prober, pc, outcome, target, startedBy, fwdState, arrival, direct>>

\* ------------------------------------------------ the environment

\* The application inside the unit binds its port.
UnitListen(u) ==
  /\ units[u] = "running"
  /\ units' = [units EXCEPT ![u] = "listening"]
  /\ UNCHANGED <<pureVars, logs, variant, now, serverMutex, lastActive, serverAddr, containerID, reaper,
                 pc, outcome, target>>
  /\ UNCHANGED procVars
  /\ UNCHANGED histVars

\* 30 s pass.
Tick ==
  /\ now < MaxTime
  /\ now' = now + 1
  /\ UNCHANGED <<pureVars, logs, variant, serverMutex, lastActive, serverAddr, containerID, units, reaper,
                 pc, outcome, target>>
  /\ UNCHANGED procVars
  /\ UNCHANGED histVars

\* Every step of the handler and of the unit; the clock is apart.
Steps ==
  \/ \E r \in Requests : ServeHTTP_Enter(r)
  \/ \E r \in Requests : ServeHTTP_Lock(r)
  \/ \E r \in Requests : ServeHTTP_Ensure(r)
  \/ \E r \in Requests : ServeHTTP_Ensure_proc(r)
  \/ \E r \in Requests : ServeHTTP_Ready(r)
  \/ \E r \in Requests : ServeHTTP_Timeout(r)
  \/ \E r \in Requests : ServeHTTP_Forward(r)
  \/ \E u \in Units : Prober(u)
  \/ \E u \in Units : monitorIdleTime_Wake(u)
  \/ \E u \in Units : monitorIdleTime_Check(u)
  \/ \E u \in Units : monitorIdleTime_Check_proc(u)
  \/ \E u \in Units : UnitListen(u)

Next == Steps \/ Tick

Spec == Init /\ [][Next]_vars

\* ---------------------------------------- the handler with a prompt reaper
\* time.Sleep returns on time and the goroutines are scheduled at once: the
\* clock does not pass a wake-up that is due while the reaper can take the
\* lock or holds it.  The clock runs on for one idle timeout and one sleep
\* past MaxTime, so that the deadline of the last activity is in view.
ReaperDue(u) ==
  \/ reaper[u].pc = "sleep" /\ now >= reaper[u].wake /\ serverMutex = Free
  \/ reaper[u].pc = "check"

Tick_prompt ==
  /\ now < MaxTime + IdleTimeoutDefault + SleepInterval
  /\ \A u \in Units : ~ReaperDue(u)
  /\ now' = now + 1
  /\ UNCHANGED <<pureVars, logs, variant, serverMutex, lastActive, serverAddr, containerID, units, reaper,
                 pc, outcome, target>>
  /\ UNCHANGED procVars
  /\ UNCHANGED histVars

Next_prompt == Steps \/ Tick_prompt

Spec_prompt == Init /\ [][Next_prompt]_vars

\* ---------------------------------------- stopServer called directly, twice in a row
\* stopServer(false) of nodejs.go: Lock, the body, Unlock.  The sequence is two
\* calls with nothing between them; direct records what each call left.
StopCall ==
  /\ variant = "container"
  /\ direct.n < 2
  /\ serverMutex = Free
  /\ \E res \in StopResults(containerID) :
       /\ stopServer(res)
       /\ direct' = IF direct.n = 0
                      THEN [direct EXCEPT !.pre = containerID, !.mid = containerID',
                                          !.err1 = (res # "ok"), !.n = 1]
                      ELSE [direct EXCEPT !.post = containerID', !.err2 = (res # "ok"),
                                          !.n = 2]
  /\ UNCHANGED <<pureVars, logs, variant, now, serverMutex, lastActive, serverAddr, reaper, pc, outcome,
                 target, startedBy, fwdState, arrival, stopIdle>>
  /\ UNCHANGED procVars

Next_stop ==
  \/ direct.n # 1 /\ Next
  \/ StopCall

Spec_stop == Init /\ [][Next_stop]_vars

\* ---------------------------------------- the handler of part_002
\* ServeHTTP takes the lock and releases it by defer, so the lock is held from
\* Lock to the return; startServer sets n.timeout to one minute; monitorIdleTime
\* calls stopServer(pid) with the lock held, and stopServer locks again.
Init_defer ==
  /\ variant = "deferred"
  /\ InitFields
  /\ proxy = NoProxy
  /\ alloc = NoAlloc
  /\ logs = NoLogs

\* ServeHTTP from the start condition to n.lastActive = time.Now().  A failed
\* cmd.Start returns before n.serverCmd is assigned, and the defer unlocks.
ServeHTTP_Ensure_defer(r) ==
  /\ variant = "deferred"
  /\ pc[r] = "locked"
  /\ IF serverCmd = NoUnit \/ ProcessStateExited
       THEN \E res \in StartResults_proc :
              /\ startedBy' = startedBy \cup {r}
              /\ IF res = "ok"
                   THEN /\ serverCmd' = NewUnit
                        /\ units' = [units EXCEPT ![NewUnit] = "running"]
                        /\ serverAddr' = Addr
                        /\ reaper' = SpawnReaper(NewUnit)
                        /\ lastActive' = now
                        /\ pc' = [pc EXCEPT ![r] = "forward"]
                        /\ target' = [target EXCEPT ![r] = NewUnit]
                        /\ UNCHANGED <<serverMutex, outcome>>
                   ELSE /\ units' = [units EXCEPT ![NewUnit] = "unstarted"]
                        /\ serverMutex' = Free
                        /\ pc' = [pc EXCEPT ![r] = "done"]
                        /\ outcome' = [outcome EXCEPT ![r] = "StartFailure"]
                        /\ UNCHANGED <<serverCmd, serverAddr, reaper, lastActive, target>>
       ELSE /\ lastActive' = now
            /\ pc' = [pc EXCEPT ![r] = "forward"]
            /\ target' = [target EXCEPT ![r] = serverCmd]
            /\ UNCHANGED <<serverMutex, serverCmd, serverAddr, units, reaper, outcome,
                           startedBy>>
  /\ UNCHANGED <<pureVars, logs, variant, now, containerID, serverStopped, serverReady, prober,
                 fwdState, arrival, stopIdle, direct>>

\* http.DefaultClient.Do and the copy of the response, then the return: the
\* deferred Unlock runs.
ServeHTTP_Forward_defer(r) ==
  /\ variant = "deferred"
  /\ pc[r] = "forward"
  /\ \E res \in ForwardResults : outcome' = [outcome EXCEPT ![r] = res]
  /\ pc' = [pc EXCEPT ![r] = "done"]
  /\ fwdState' = [fwdState EXCEPT ![r] = units[target[r]]]
  /\ serverMutex' = Free
  /\ UNCHANGED <<pureVars, logs, variant, now, lastActive, serverAddr, containerID, units,
                 reaper, target, startedBy, arrival, stopIdle, direct>>
  /\ UNCHANGED procVars

\* monitorIdleTime(pid): when idle, stopServer(pid) is called with the lock held
\* and blocks in its own n.serverMutex.Lock(); otherwise Unlock and sleep again.
monitorIdleTime_Check_defer(u) ==
  /\ variant = "deferred"
  /\ reaper[u].pc = "check"
  /\ IF Since(lastActive) > IdleTimeoutDefault
       THEN /\ reaper' = [reaper EXCEPT ![u].pc = "stopLock"]
            /\ UNCHANGED serverMutex
       ELSE /\ reaper' = [reaper EXCEPT ![u] = [pc |-> "sleep", wake |-> now + SleepInterval]]
            /\ serverMutex' = Free
  /\ UNCHANGED <<pureVars, logs, variant, now, lastActive, serverAddr, containerID, units, pc,
                 outcome, target>>
  /\ UNCHANGED procVars
  /\ UNCHANGED histVars

Next_defer ==
  \/ \E r \in Requests : ServeHTTP_Enter(r)
  \/ \E r \in Requests : ServeHTTP_Lock(r)
  \/ \E r \in Requests : ServeHTTP_Ensure_defer(r)
  \/ \E r \in Requests : ServeHTTP_Forward_defer(r)
  \/ \E u \in Units : monitorIdleTime_Wake(u)
  \/ \E u \in Units : monitorIdleTime_Check_defer(u)
  \/ \E u \in Units : UnitListen(u)
  \/ Tick

Spec_defer == Init_defer /\ [][Next_defer]_vars

\* ---------------------------------------- the handler of part_001 with its logs
\* rotateLogs(pid) runs beside the requests and the reaper.  Its sleep is one
\* hour, far past MaxTime, so the clock leaps to the next rotation once every
\* request has returned and no reaper is left in its loop.
MaxRotations == 2    \* the clock leaps while it is below this number of hours

\* The oldest k of a set of log files, in name order.
Oldest(files, k) == {f \in files : Cardinality({g \in files : g < f}) < k}

\* What deleteOldLogFiles leaves: os.Remove on the oldest len(files)-24 names in
\* sorted order, returning at the first error, that is after `removed` of them.
deleteOldLogFiles(files, removed) == files \ Oldest(files, removed)

\* The number of names deleteOldLogFiles has to remove.
Excess(files) == IF Cardinality(files) > Retention THEN Cardinality(files) - Retention ELSE 0

\* One turn of the loop of rotateLogs up to the Lock: the sleep is over, the
\* handle in n.LogFileMap[pid] is closed, createLogFile(pid) is called, and on
\* its success logFileCount is advanced and, past 24, deleteOldLogFiles runs.
\* A failed createLogFile is logged and the loop continues with the next sleep.
\* None of this takes the lock.
rotateLogs_Rotate(u) ==
  /\ logs.rotator[u].pc = "sleep"
  /\ now >= logs.rotator[u].wake
  /\ LET closed == [logs.LogFileMap EXCEPT ![u] = IF @ = "none" THEN "none" ELSE "closed"]
         created == createLogFile(u, closed)
         count == logs.rotator[u].count + 1
     IN  \/ logs' = [logs EXCEPT !.LogFileMap = closed,
                                 !.rotator[u].wake = now + RotationTicks]
         \/ /\ count <= Retention
            /\ logs' = [created EXCEPT !.rotator[u].pc = "swap", !.rotator[u].count = count]
         \/ /\ count > Retention
            /\ \E removed \in 0..Excess(created.files) :
                 logs' = [created EXCEPT !.rotator[u].pc = "swap", !.rotator[u].count = 1,
                                         !.files = deleteOldLogFiles(created.files, removed)]
  /\ UNCHANGED <<pureVars, variant, now, serverMutex, lastActive, serverAddr, containerID,
                 units, reaper, pc, outcome, target>>
  /\ UNCHANGED procVars
  /\ UNCHANGED histVars

\* The locked section at the end of the turn: Lock, the writers of
\* n.serverCmd are renewed if the pid is still the current one, Unlock; then
\* the next sleep.
rotateLogs_Swap(u) ==
  /\ logs.rotator[u].pc = "swap"
  /\ serverMutex = Free
  /\ logs' = [logs EXCEPT !.rotator[u].pc = "sleep", !.rotator[u].wake = now + RotationTicks]
  /\ UNCHANGED <<pureVars, variant, now, serverMutex, lastActive, serverAddr, containerID,
                 units, reaper, pc, outcome, target>>
  /\ UNCHANGED procVars
  /\ UNCHANGED histVars

\* The rotateLogs goroutines that are in their loop.
LiveRotators == {u \in Units : logs.rotator[u].pc \in {"sleep", "swap"}}

\* The handler is quiet and the clock stands at MaxTime: time passes up to the
\* next rotation that is due, as long as the clock is below `hours` hours.
Leap(hours) ==
  /\ now >= MaxTime
  /\ now < RotationTicks * hours
  /\ \A r \in Requests : pc[r] = "done"
  /\ \A u \in Units : reaper[u].pc \in {"none", "exit"}
  /\ \E u \in LiveRotators :
       /\ logs.rotator[u].pc = "sleep"
       /\ logs.rotator[u].wake > now
       /\ \A v \in LiveRotators : logs.rotator[v].pc = "sleep" /\ logs.rotator[v].wake >= logs.rotator[u].wake
       /\ now' = logs.rotator[u].wake
  /\ UNCHANGED <<pureVars, logs, variant, serverMutex, lastActive, serverAddr, containerID,
                 units, reaper, pc, outcome, target>>
  /\ UNCHANGED procVars
  /\ UNCHANGED histVars

Tick_rotation == Leap(MaxRotations)

Next_log ==
  \/ Next
  \/ \E u \in Units : rotateLogs_Rotate(u)
  \/ \E u \in Units : rotateLogs_Swap(u)
  \/ Tick_rotation

Spec_log == Init /\ [][Next_log]_vars

\* ---------------------------------------- rotateLogs in the long run
\* The rotateLogs goroutine of one generation over more than a day.  The run
\* starts from the state the handler is in at MaxTime after every request was
\* served by unit 1 and the reaper has stopped that unit, with the log files
\* of earlier days on disk.
MaxHours == 26       \* the clock leaps while it is below this number of hours
MaxOldFiles == 25    \* log files of earlier days (named by negative day numbers)

OldFiles(k) == {0 - d : d \in 1..k}

Init_rot ==
  /\ variant = "process"
  /\ now = MaxTime
  /\ serverMutex = Free
  /\ lastActive = 1
  /\ serverAddr = Addr
  /\ containerID = NoUnit
  /\ serverCmd = 1
  /\ serverStopped = TRUE
  /\ serverReady = 0
  /\ units = [u \in Units |-> IF u = 1 THEN "exited" ELSE "none"]
  /\ reaper = [u \in Units |-> IF u = 1 THEN [pc |-> "exit", wake |-> SleepInterval]
                                         ELSE [pc |-> "none", wake |-> 0]]
  /\ prober = [u \in Units |-> IF u = 1 THEN "done" ELSE "none"]
  /\ pc = [r \in Requests |-> "done"]
  /\ outcome = [r \in Requests |-> "OK"]
  /\ target = [r \in Requests |-> 1]
  /\ startedBy = {1}
  /\ fwdState = [r \in Requests |-> "listening"]
  /\ arrival = [r \in Requests |-> [stopped |-> TRUE, stopsRun |-> {}]]
  /\ stopIdle = 1
  /\ direct = NoDirect
  /\ proxy = NoProxy
  /\ alloc = NoAlloc
  /\ \E k \in 0..MaxOldFiles :
       logs = [LogFileMap |-> NoLogFiles,
               rotator |-> [u \in Units |->
                              IF u = 1 THEN [pc |-> "sleep", wake |-> RotationTicks, count |-> 0]
                                       ELSE [pc |-> "none", wake |-> 0, count |-> 0]],
               files |-> OldFiles(k) \cup {0}]

Tick_hours == Leap(MaxHours)

Next_rot ==
  \/ \E u \in Units : rotateLogs_Rotate(u)
  \/ \E u \in Units : rotateLogs_Swap(u)
  \/ Tick_hours

Spec_rot == Init_rot /\ [][Next_rot]_vars

\* ---------------------------------------- the forwarding code of ServeHTTP
\* One inbound request is taken through the code after Unlock: the outbound
\* request is built, sent, and the backend's response is copied to the caller.
\* Strings are sequences of characters.
Methods == {"GET", "POST"}
\* r.URL.Path: the decoded path, so "/a%3Fb" of the request line is "/a?b" here
Paths == {<<"/">>, <<"/", "a">>, <<"/", "a", "?", "b">>}
Queries == {<<>>, <<"x">>}              \* r.URL.RawQuery
HeaderValues == {<<>>, <<"v">>}         \* the values of one header name
Bodies == {<<>>, <<"d">>}
StatusCodes == {200, 404, 500}

Inbound == [method : Methods, path : Paths, query : Queries, header : HeaderValues,
            body : Bodies]
NoRequest == [method |-> "", path |-> <<>>, query |-> <<>>, header |-> <<>>, body |-> <<>>]
NoResponse == [status |-> 0, header |-> <<>>, body |-> <<>>]

\* url.Parse of the string handed to http.NewRequestWithContext: what follows
\* the first "?" is the query, what precedes it the path.
QueryMark(s) ==
  IF \E i \in 1..Len(s) : s[i] = "?"
    THEN CHOOSE i \in 1..Len(s) : s[i] = "?" /\ \A j \in 1..(i - 1) : s[j] # "?"
    ELSE 0
ParsePath(s) == IF QueryMark(s) = 0 THEN s ELSE SubSeq(s, 1, QueryMark(s) - 1)
ParseQuery(s) == IF QueryMark(s) = 0 THEN <<>> ELSE SubSeq(s, QueryMark(s) + 1, Len(s))

\* http.NewRequestWithContext(r.Context(), r.Method, n.serverAddr+r.URL.Path, r.Body)
\* and proxyReq.Header = r.Header.  n.serverAddr holds no "?", so only the part
\* after it is parsed here.
proxyReq(r) ==
  [method |-> r.method, path |-> ParsePath(r.path), query |-> ParseQuery(r.path),
   header |-> r.header, body |-> r.body]

\* for header, values := range resp.Header { w.Header().Add(header, value) }:
\* every value is appended to what w.Header() holds already.
RECURSIVE AddAll(_, _)
AddAll(h, values) ==
  IF values = <<>> THEN h ELSE AddAll(Append(h, Head(values)), Tail(values))

Init_fwd ==
  /\ variant = "container"
  /\ InitFields
  /\ alloc = NoAlloc
  /\ logs = NoLogs
  /\ \E r \in Inbound :
       proxy = [stage |-> "inbound", in |-> r, out |-> NoRequest, resp |-> NoResponse,
                wHeader |-> <<>>, written |-> NoResponse]

Forward_NewRequest ==
  /\ proxy.stage = "inbound"
  /\ proxy' = [proxy EXCEPT !.stage = "built", !.out = proxyReq(proxy.in)]
  /\ UNCHANGED <<alloc, logs, variant, now, serverMutex, lastActive, serverAddr, containerID, units,
                 reaper, pc, outcome, target>>
  /\ UNCHANGED procVars
  /\ UNCHANGED histVars

\* httpClient.Do(proxyReq): a response of the backend, or a transport error.
Forward_Do ==
  /\ proxy.stage = "built"
  /\ \/ \E resp \in [status : StatusCodes, header : HeaderValues, body : Bodies],
           h \in HeaderValues :
          proxy' = [proxy EXCEPT !.stage = "answered", !.resp = resp, !.wHeader = h]
     \/ proxy' = [proxy EXCEPT !.stage = "failed"]
  /\ UNCHANGED <<alloc, logs, variant, now, serverMutex, lastActive, serverAddr, containerID, units,
                 reaper, pc, outcome, target>>
  /\ UNCHANGED procVars
  /\ UNCHANGED histVars

\* The header loop, w.WriteHeader(resp.StatusCode) and io.Copy(w, resp.Body);
\* a failed copy has written a part of the body.
Forward_Write ==
  /\ proxy.stage = "answered"
  /\ \/ proxy' = [proxy EXCEPT !.stage = "written",
                               !.written = [status |-> proxy.resp.status,
                                            header |-> AddAll(proxy.wHeader, proxy.resp.header),
                                            body |-> proxy.resp.body]]
     \/ \E k \in 0..(Len(proxy.resp.body) - 1) :
          proxy' = [proxy EXCEPT !.stage = "copyFailed",
                                 !.written = [status |-> proxy.resp.status,
                                              header |-> AddAll(proxy.wHeader, proxy.resp.header),
                                              body |-> SubSeq(proxy.resp.body, 1, k)]]
  /\ UNCHANGED <<alloc, logs, variant, now, serverMutex, lastActive, serverAddr, containerID, units,
                 reaper, pc, outcome, target>>
  /\ UNCHANGED procVars
  /\ UNCHANGED histVars

Next_fwd == Forward_NewRequest \/ Forward_Do \/ Forward_Write

Spec_fwd == Init_fwd /\ [][Next_fwd]_vars

\* ---------------------------------------- getRandomPort
\* One call getRandomPort(min, max) of parseCaddyfile.  The ports other
\* programs hold are an input of the call; the range is cut to MaxPorts ports.
MaxPorts == 3        \* number of ports in the range (1000 in parseCaddyfile)
PortMin == 9000      \* getRandomPort(9000, 9999)
PortMax == PortMin + MaxPorts - 1
Attempts == 100      \* for i := 0; i < 100; i++

\* rand.Intn(max-min+1) + min
RandPort(min, max) == {min + k : k \in 0..(max - min)}

Init_port ==
  /\ variant = "container"
  /\ InitFields
  /\ proxy = NoProxy
  /\ logs = NoLogs
  /\ \E busy \in SUBSET (PortMin..PortMax) :
       alloc = [stage |-> "trying", min |-> PortMin, max |-> PortMax, busy |-> busy,
                i |-> 0, port |-> 0]

\* One turn of the loop: net.Listen on a random port of the range; the port is
\* returned if the bind succeeded, and the loop goes on otherwise.
getRandomPort_Try ==
  /\ alloc.stage = "trying"
  /\ alloc.i < Attempts
  /\ \E port \in RandPort(alloc.min, alloc.max) :
       alloc' = IF port \notin alloc.busy
                  THEN [alloc EXCEPT !.stage = "returned", !.port = port]
                  ELSE [alloc EXCEPT !.i = alloc.i + 1]
  /\ UNCHANGED <<proxy, logs, variant, now, serverMutex, lastActive, serverAddr, containerID, units,
                 reaper, pc, outcome, target>>
  /\ UNCHANGED procVars
  /\ UNCHANGED histVars

\* The loop is over: "could not find an available port in the range".
getRandomPort_Fail ==
  /\ alloc.stage = "trying"
  /\ alloc.i = Attempts
  /\ alloc' = [alloc EXCEPT !.stage = "failed"]
  /\ UNCHANGED <<proxy, logs, variant, now, serverMutex, lastActive, serverAddr, containerID, units,
                 reaper, pc, outcome, target>>
  /\ UNCHANGED procVars
  /\ UNCHANGED histVars

Next_port == getRandomPort_Try \/ getRandomPort_Fail

Spec_port == Init_port /\ [][Next_port]_vars

\* ------------------------------------------------------------- claims

\* A request waits for a lock whose holder has returned from ServeHTTP: no
\* code path unlocks it any more.
BlockedForever(r) ==
  /\ pc[r] = "lock"
  /\ \E q \in Requests : serverMutex = ReqTask(q) /\ pc[q] = "done"

\* The units the runtime is executing.
RunningUnits == {u \in Units : units[u] \in {"running", "listening"}}

\* C1: the requests that entered ServeHTTP while the instance was Stopped, before
\* any stop has run, initiate at most one start sequence, and they share its
\* outcome: none of them has the start failure while another has a different
\* result or can never receive one.
C1_Claim ==
  LET batch == {r \in Requests : arrival[r].stopped}
  IN  (\A u \in Units : reaper[u].pc # "exit") =>
        /\ Cardinality(startedBy \cap batch) <= 1
        /\ \A a, b \in batch :
             outcome[a] = "StartFailure" =>
               /\ ~BlockedForever(b)
               /\ outcome[b] \in {"none", "StartFailure"}

\* C2: after a request has failed with the start failure the instance holds no
\* identity and the lock is not left with the failed request, so that the
\* next request can run a start attempt of its own.
C2_Claim ==
  \A r \in Requests :
    outcome[r] = "StartFailure" =>
      /\ serverMutex # ReqTask(r)
      /\ startedBy = {r} => IdentityEmpty

\* C3: a request that arrived after the reaper had run its stop on a unit never
\* relies on that unit: it leaves the locked section with a newer unit as target.
C3_Claim ==
  \A r \in Requests : target[r] = NoUnit \/ target[r] \notin arrival[r].stopsRun

\* C4: the reaper never calls stopServer when lastActive is less than one idle
\* timeout (1 minute) before its check.
C4_Claim == stopIdle = -1 \/ stopIdle >= IdleTimeoutDefault

\* C5: with a prompt reaper, an instance that holds an identity and has no
\* request in progress is never older than one idle timeout plus one poll
\* interval past its last activity: by then it has been stopped.
C5_Claim ==
  (/\ ~IdentityEmpty
   /\ lastActive # ZeroTime
   /\ \A r \in Requests : pc[r] \in {"idle", "done"})
    => now <= lastActive + IdleTimeoutDefault + SleepInterval

\* C6: at most one unit of the handler is running in every reachable state.
C6_OneRunningUnit == Cardinality(RunningUnits) <= 1

\* C6 witness: a second unit runs after an earlier one was stopped.
C6_Witness ==
  \E u, v \in Units : units[u] \in {"exited", "removed"} /\ v \in RunningUnits

\* C7: no request is forwarded to a unit that has been started and has not yet
\* accepted a connection on its port.
C7_Claim == \A r \in Requests : fwdState[r] # "running"

\* C8: stopServer on a Stopped instance is a no-op without error, and two calls
\* in a row raise no error and leave the instance Stopped after each of them.
C8_Claim ==
  /\ direct.n >= 1 /\ direct.pre = NoUnit => ~direct.err1 /\ direct.mid = NoUnit
  /\ direct.n >= 1 => direct.mid = NoUnit
  /\ direct.n = 2 => ~direct.err2 /\ direct.post = NoUnit

\* C9: whenever the lock is free, serverAddr is non-empty exactly when the
\* instance is Ready: empty before any start and empty again after a stop.
C9_Claim == serverMutex = Free => ((serverAddr # "") <=> (LifecycleState = "Ready"))

\* C10: after a request has failed with the start timeout, a later request is
\* not blocked forever.
C10_Claim ==
  \A r, q \in Requests : outcome[r] = "StartTimeout" => ~BlockedForever(q)

\* C11: the outbound request carries the inbound request's method, path, query
\* string, headers and body unmodified, and a response that was copied in full
\* carries the backend's status code, body and header values unmodified.
C11_Claim ==
  /\ proxy.stage \in {"built", "answered", "failed", "written", "copyFailed"} =>
       /\ proxy.out.method = proxy.in.method
       /\ proxy.out.path = proxy.in.path
       /\ proxy.out.query = proxy.in.query
       /\ proxy.out.header = proxy.in.header
       /\ proxy.out.body = proxy.in.body
  /\ proxy.stage = "written" =>
       /\ proxy.written.status = proxy.resp.status
       /\ proxy.written.body = proxy.resp.body
       /\ \E k \in 0..Len(proxy.written.header) :
            SubSeq(proxy.written.header, k + 1, Len(proxy.written.header)) = proxy.resp.header

\* C12: a transport failure while forwarding fails only that request: identity,
\* address, lifecycle fields, lock, units and reapers are the same after the
\* failed forward as before it, and no other request's position, target or
\* result changes.
C12_FailedForwardFrame ==
  [][\A r \in Requests :
       (outcome[r] = "none" /\ outcome'[r] = "ProxyFailure") =>
         /\ UNCHANGED <<containerID, serverCmd, serverStopped, serverReady, serverAddr,
                        serverMutex, lastActive, units, reaper, prober>>
         /\ \A q \in Requests \ {r} :
              pc'[q] = pc[q] /\ outcome'[q] = outcome[q] /\ target'[q] = target[q]]_vars

\* C12 witness: a forward to a listening unit has failed, the instance is still
\* Ready, and another request was served by the same unit.
C12_Witness ==
  \E r, q \in Requests :
    /\ outcome[r] = "ProxyFailure" /\ fwdState[r] = "listening"
    /\ outcome[q] = "OK" /\ target[q] = target[r]
    /\ LifecycleState = "Ready"

\* C13: getRandomPort returns a port of its range that was free when it was
\* bound, makes at most 100 attempts, and fails only when no port of the range
\* is free.
C13_Claim ==
  /\ alloc.stage = "returned" =>
       alloc.port \in alloc.min..alloc.max /\ alloc.port \notin alloc.busy
  /\ alloc.stage # "none" => alloc.i <= Attempts
  /\ alloc.stage = "failed" => (alloc.min..alloc.max) \subseteq alloc.busy

\* C14: every change of the lifecycle state follows the cycle Stopped ->
\* Starting -> Ready -> Stopping -> Stopped or the edge Starting -> Stopped.  A
\* step of the handler runs startServer or stopServer as a whole, so a step may
\* take two edges of the cycle at once (Stopped -> Ready through Starting, Ready
\* -> Stopped through the reaper's stop), and the reaper's stop, once it has
\* run, leaves the instance Stopped.
C14_Claim ==
  [][LET stopRan == \E u \in Units : reaper[u].pc = "check" /\ reaper'[u].pc = "exit"
         from == LifecycleState
         to == LifecycleState'
     IN  /\ \/ from = to
            \/ from = "Stopped" /\ to \in {"Starting", "Ready"}
            \/ from = "Starting" /\ to \in {"Ready", "Stopped"}
            \/ from = "Ready" /\ to = "Stopped" /\ stopRan
         /\ stopRan => to = "Stopped"]_vars

\* C15: a request that waits for the readiness signal does not hold the lock,
\* so that other requests and the reaper can take it meanwhile.
C15_Claim == \A r \in Requests : pc[r] = "waitReady" => serverMutex # ReqTask(r)

\* C16: a request in its forwarding phase does not hold the lock, so that it
\* never keeps another request from the lock-guarded check and several
\* requests can forward at the same time.
C16_Claim == \A r \in Requests : pc[r] = "forward" => serverMutex # ReqTask(r)

\* C17 (as stated): lastActive is written only under the lock, never decreases,
\* and is advanced at the successful forward of a request and only there.
C17_Claim ==
  [][/\ lastActive' # lastActive =>
          /\ lastActive' > lastActive
          /\ \E r \in Requests : outcome[r] = "none" /\ outcome'[r] = "OK"
     /\ \A r \in Requests :
          outcome[r] = "none" /\ outcome'[r] = "OK" => lastActive' = now']_vars

\* C17 (amended): lastActive is written only by a request that holds the lock
\* and leaves the locked section for its forward; it never decreases; and every
\* request that leaves the locked section for its forward has set it to the
\* current time, before the forward and whatever the forward's result.
C17_TouchBeforeForward ==
  [][/\ lastActive' # lastActive =>
          /\ lastActive' > lastActive
          /\ \E r \in Requests :
               serverMutex = ReqTask(r) /\ pc[r] # "forward" /\ pc'[r] = "forward"
     /\ \A r \in Requests :
          pc[r] # "forward" /\ pc'[r] = "forward" =>
            serverMutex = ReqTask(r) /\ lastActive' = now']_vars

\* C17 witness: the only request so far has advanced lastActive and its forward
\* has failed.
C17_Witness ==
  \E r \in Requests :
    /\ outcome[r] = "ProxyFailure"
    /\ lastActive # ZeroTime
    /\ \A q \in Requests \ {r} : pc[q] = "idle"

\* The monitorIdleTime goroutines that are still in their loop.
LiveReapers == {u \in Units : reaper[u].pc \in {"sleep", "check"}}

\* C18: at most one monitorIdleTime goroutine is in its polling loop in every
\* reachable state, across start/stop generations.
C18_OneLiveReaper == Cardinality(LiveReapers) <= 1

\* C18 witness: the reaper of an earlier generation has exited and the reaper
\* of a later unit is in its loop.
C18_Witness ==
  \E u, v \in Units : reaper[u].pc = "exit" /\ v \in LiveReapers /\ u < v

\* The unit the identity field names.
CurrentUnit == IF variant = "container" THEN containerID ELSE serverCmd

\* C19: whenever the instance holds the identity of a unit that has been
\* started, the monitorIdleTime goroutine of that unit is in its loop: a reaper
\* exits only when its instance has been stopped.
C19_Claim ==
  (~IdentityEmpty /\ units[CurrentUnit] # "unstarted") => CurrentUnit \in LiveReapers

\* C20: in the process variant, once the reaper's stopServer has run on the
\* current unit, whether the unit exited in time or had to be killed, the
\* instance is recorded as Stopped and the next request starts a new unit.
C20_Claim ==
  variant = "process" =>
    \A u \in Units : (reaper[u].pc = "exit" /\ serverCmd = u) => IdentityEmpty

\* C21: the reaper's stopServer never runs on a unit while a request that has
\* left the locked section with that unit as its target is still forwarding.
\* A forward ends within the 10 s of the client's Timeout, less than one tick,
\* so the stops counted are those with the activity record at most one tick old.
C21_Claim ==
  [][\A u \in Units :
       (reaper[u].pc = "check" /\ reaper'[u].pc = "exit" /\ Since(lastActive) <= 1) =>
         \A r \in Requests : ~(pc[r] = "forward" /\ target[r] = u)]_vars

\* C22: every access to the mutable state of the instance is made by a task
\* that holds the lock: the request that reads n.serverAddr for its forward
\* holds it, and the rotateLogs goroutine that reads and writes n.LogFileMap in
\* its turn holds it.
C22_Claim ==
  [][/\ \A r \in Requests :
          (pc[r] = "forward" /\ pc'[r] = "done") => serverMutex = ReqTask(r)
     /\ \A u \in Units :
          (logs.rotator[u].pc = "sleep" /\ logs'.rotator[u] # logs.rotator[u]) =>
            serverMutex = <<"rotator", u>>]_vars

\* C23: after every rotation 24 or fewer log files of the configuration remain,
\* whatever number of files existed before the generation started.
C23_Claim ==
  \A u \in Units : logs.rotator[u].pc = "swap" => Cardinality(logs.files) <= Retention

\* C24: at most one rotateLogs goroutine is in its loop, and it is the one of
\* the unit the instance currently runs: the goroutine of a unit has ended
\* once that unit was stopped.
C24_Claim ==
  /\ Cardinality(LiveRotators) <= 1
  /\ \A u \in LiveRotators : ~IdentityEmpty /\ serverCmd = u

\* C25: a failure to create a log file never makes a request fail: in the
\* process variant a request fails with the start failure only when cmd.Start
\* failed, so the unit it tried to start has never run.
C25_Claim ==
  variant = "process" =>
    \A r \in Requests : outcome[r] = "StartFailure" => units[serverCmd] = "unstarted"

\* C26: no prober keeps running after its start attempt has timed out: once a
\* request has returned the start timeout, the prober of the unit it started
\* is no longer polling.
C26_Claim ==
  \A r \in Requests : outcome[r] = "StartTimeout" => prober[serverCmd] # "polling"

=============================================================================
